---- MODULE Spec2Model ----
(***************************************************************************)
(* Model of the tunnel traffic simulation core of tunnel_simulation.tsx:   *)
(* the React state of TunnelSimulation, its refs, the requestAnimationFrame *)
(* callbacks in flight, the state updates React has queued and not yet      *)
(* rendered, and the handlers that change them.                             *)
(*                                                                          *)
(* Numbers.  A Math.random() draw is a thousandth (0..999) or one of the    *)
(* two largest numbers Math.random() returns, 1 - 2^-52 and 1 - 2^-53.      *)
(* Everything spawnVehicle computes from its draws, and the positions,      *)
(* speeds and temperatures of vehicles, are IEEE-754 binary64 numbers,      *)
(* computed as the program computes them.  The three environmental signals  *)
(* are integers in units of 1/EnvScale.  Times are milliseconds.            *)
(* simulationTime is counted in tenths (one per tick).                      *)
(*                                                                          *)
(* Frames.  The animate callback only queues state updates, writes          *)
(* lastSpawnTimeRef and requests the next frame; the queued updaters run    *)
(* when React renders.  A click is rendered with the click, so a click that *)
(* falls between a callback and its render is rendered first, and the       *)
(* queued updates are replayed afterwards in the order they were queued.    *)
(* A render that follows its callback with no click in between is what a    *)
(* runtime rendering inside the callback does.                              *)
(***************************************************************************)
EXTENDS Integers, Sequences, FiniteSets

\* ---------------------------------------------------------------- bounds
\* Largest number of slowdowns (speed * 0.3) offered to one vehicle in the
\* specifications that draw the slowdown for chosen vehicles.
MaxSlowdowns == 2
\* Number of coarse (2.5 s) frames that may fire.
MaxCoarseFrames == 4
\* Number of fine (16 ms) frames that may fire in the long-run specification.
MaxLongFrames == 155
\* Number of fine frames that may fire in the environmental specification.
MaxEnvFrames == 34
\* Number of fine frames that may fire in the specification that slows every
\* vehicle on every tick.
MaxSlowedFrames == 635
\* Number of fine frames during which the buttons are clicked in that
\* specification.
MaxSlowedClickFrames == 2
\* Vehicle ids handed out between two resets.
MaxVehicleIds == 7

\* ----------------------------------------------------------- arithmetic
RandScale == 1000
EnvScale == 10000
\* the draws that stand for the largest numbers Math.random() returns:
\* 1 - 2^-52 where it is built from 52 random bits, 1 - 2^-53 from 53
Largest52 == RandScale
Largest53 == RandScale + 1

Max(a, b) == IF a > b THEN a ELSE b
Min(a, b) == IF a < b THEN a ELSE b

\* [insight, ...prev].slice(0, 5)
AlertLogCap == 5
\* variant: the new insight is added at the back
pushInsight_atBack(insight, prev) == SubSeq(prev \o <<insight>>, 1, Min(Len(prev) + 1, AlertLogCap))
pushInsight(insight, prev) == SubSeq(<<insight>> \o prev, 1, Min(Len(prev) + 1, AlertLogCap))

\* ------------------------------------------------- binary64 numbers
\* The positions and speeds of the program are IEEE-754 binary64 numbers.  A
\* finite non-negative one is held as [m |-> limbs, e |-> exponent]: its
\* value is m * 2^e, m being a number of MantBits bits written as four limbs
\* of LimbBits bits, least significant first.  Bit MantBits of m is set
\* unless e = MinExp (subnormal numbers and zero).
MantBits == 53
MinExp == -1074
LimbBits == 14
LimbBase == 16384

Pow2Table == <<1, 2, 4, 8, 16, 32, 64, 128, 256, 512, 1024, 2048, 4096, 8192, 16384>>
\* 2^k for 0 <= k <= LimbBits
Pow2(k) == Pow2Table[k + 1]

\* limb i (from 1, least significant) of p, 0 beyond its length
limb(p, i) == IF i >= 1 /\ i <= Len(p) THEN p[i] ELSE 0

\* bit k (from 1, least significant) of the number with limbs p
bitOf(p, k) ==
  IF k < 1 THEN 0
  ELSE (limb(p, ((k - 1) \div LimbBits) + 1) \div Pow2((k - 1) % LimbBits)) % 2

\* some bit among the lowest n of p is set
anyBitBelow(p, n) ==
  \/ \E i \in 1..(n \div LimbBits) : limb(p, i) # 0
  \/ limb(p, (n \div LimbBits) + 1) % Pow2(n % LimbBits) # 0

\* number of bits of the limb x up to the highest set one
limbLength(x) ==
  CHOOSE k \in 0..LimbBits : IF k = 0 THEN x = 0 ELSE Pow2(k - 1) <= x /\ x < Pow2(k)

\* number of bits up to the highest set one
bitLength(p) ==
  LET set == {i \in 1..Len(p) : p[i] # 0}
      top == CHOOSE i \in set : \A j \in set : j <= i
  IN IF set = {} THEN 0 ELSE (top - 1) * LimbBits + limbLength(p[top])

\* limb j of p \div 2^s
loweredLimb(p, s, j) ==
  LET w == s \div LimbBits
      b == s % LimbBits
  IN (limb(p, w + j) \div Pow2(b)) + (limb(p, w + j + 1) % Pow2(b)) * Pow2(LimbBits - b)

\* the four limbs of p \div 2^s
shiftRight(p, s) ==
  << loweredLimb(p, s, 1), loweredLimb(p, s, 2),
     loweredLimb(p, s, 3), loweredLimb(p, s, 4) >>

\* limb j of a * 2^d
raisedLimb(a, d, j) ==
  LET w == d \div LimbBits
      b == d % LimbBits
  IN (limb(a, j - w) % Pow2(LimbBits - b)) * Pow2(b)
       + limb(a, j - w - 1) \div Pow2(LimbBits - b)

\* the eight limbs of a * 2^d
shiftLeft(a, d) ==
  << raisedLimb(a, d, 1), raisedLimb(a, d, 2), raisedLimb(a, d, 3),
     raisedLimb(a, d, 4), raisedLimb(a, d, 5), raisedLimb(a, d, 6),
     raisedLimb(a, d, 7), raisedLimb(a, d, 8) >>

\* column c (from 0) of the schoolbook product of two four-limb numbers
column(a, b, c) ==
  LET term(i) == IF c - i >= 0 /\ c - i <= 3 THEN a[i + 1] * b[c - i + 1] ELSE 0
  IN term(0) + term(1) + term(2) + term(3)

\* the limbs c.. of a * b, given the carry into column c
RECURSIVE productFrom(_, _, _, _)
productFrom(a, b, c, carry) ==
  IF c = 8 THEN <<>>
  ELSE LET t == column(a, b, c) + carry
       IN <<t % LimbBase>> \o productFrom(a, b, c + 1, t \div LimbBase)

\* the limbs i.. of a + b for numbers of the same number of limbs, given the
\* carry into limb i
RECURSIVE sumFrom(_, _, _, _)
sumFrom(a, b, i, carry) ==
  IF i > Len(a) THEN <<>>
  ELSE LET t == a[i] + b[i] + carry
       IN <<t % LimbBase>> \o sumFrom(a, b, i + 1, t \div LimbBase)

\* the limbs 1..i of (rem * LimbBase^i + p[1..i]) \div n, and the remainder
RECURSIVE divideFrom(_, _, _, _)
divideFrom(p, n, i, rem) ==
  IF i = 0 THEN [q |-> <<>>, r |-> rem]
  ELSE LET cur  == rem * LimbBase + p[i]
           rest == divideFrom(p, n, i - 1, cur % n)
       IN [q |-> Append(rest.q, cur \div n), r |-> rest.r]

\* q + 1 for a four-limb number
increment(q) ==
  LET c1 == (q[1] + 1) \div LimbBase
      c2 == (q[2] + c1) \div LimbBase
      c3 == (q[3] + c2) \div LimbBase
  IN << (q[1] + 1) % LimbBase, (q[2] + c1) % LimbBase,
        (q[3] + c2) % LimbBase, q[4] + c3 >>

\* rounding p \div 2^s to nearest, ties to even, goes up
roundsUp(p, s) ==
  /\ bitOf(p, s) = 1
  /\ bitOf(p, s + 1) = 1 \/ anyBitBelow(p, s - 1)

\* the four limbs of p \div 2^s rounded
roundedMantissa(p, s) ==
  IF roundsUp(p, s) THEN increment(shiftRight(p, s)) ELSE shiftRight(p, s)

\* r * 2^e with r brought back to MantBits bits if the rounding carried
renormalised(r, e) ==
  IF bitOf(r, MantBits + 1) = 1
  THEN [m |-> shiftRight(r, 1), e |-> e + 1]
  ELSE [m |-> r, e |-> e]

\* the binary64 number nearest to p * 2^pe, ties to even; at least `least`
\* low bits of p are dropped (gradual underflow)
roundBinary64(p, pe, least) ==
  LET s == Max(bitLength(p) - MantBits, least)
  IN renormalised(roundedMantissa(p, s), pe + s)

zero64 == [m |-> <<0, 0, 0, 0>>, e |-> MinExp]
isZero64(x) == x.m = <<0, 0, 0, 0>>

\* x * y, rounded to nearest, ties to even, with gradual underflow
timesBinary64(x, y) ==
  IF isZero64(x) \/ isZero64(y) THEN zero64
  ELSE roundBinary64(productFrom(x.m, y.m, 0, 0), x.e + y.e, MinExp - (x.e + y.e))

\* x + y for x.e >= y.e, rounded to nearest, ties to even
plusOrdered64(x, y) ==
  IF isZero64(y) \/ x.e - y.e > MantBits + 1 THEN x
  ELSE roundBinary64(sumFrom(shiftLeft(x.m, x.e - y.e), y.m \o <<0, 0, 0, 0>>, 1, 0),
                     y.e, 0)

\* x + y
plusBinary64(x, y) ==
  IF isZero64(x) THEN y
  ELSE IF x.e >= y.e THEN plusOrdered64(x, y) ELSE plusOrdered64(y, x)

\* x <= y
leqBinary64(x, y) ==
  \/ x.e < y.e
  \/ /\ x.e = y.e
     /\ \/ x.m = y.m
        \/ \E k \in 1..4 : /\ x.m[k] < y.m[k]
                          /\ \A j \in (k + 1)..4 : x.m[j] = y.m[j]

\* x < y
lessBinary64(x, y) == ~leqBinary64(y, x)

\* the binary64 number a decimal literal num/den denotes, 0 < num < LimbBase
decimal64(num, den) ==
  LET d == divideFrom(<<0, 0, 0, 0, 0, num>>, den, 6, 0)
  IN roundBinary64(<<IF d.r = 0 THEN 0 ELSE 1>> \o d.q, -6 * LimbBits, 0)

\* Math.floor(x) for 0 <= x < LimbBase
floor64(x) == loweredLimb(x.m, -x.e, 1)

\* Math.round(x) for 0 <= x < LimbBase - 1
round64(x) == loweredLimb(x.m, -x.e, 1) + bitOf(x.m, -x.e)


\* Math.random() for a draw r: r thousandths, or one of the two largest
\* binary64 numbers below 1
random64(r) ==
  IF r = 0 THEN zero64
  ELSE IF r = Largest52 THEN [m |-> <<16382, 16383, 16383, 2047>>, e |-> -MantBits]
  ELSE IF r = Largest53 THEN [m |-> <<16383, 16383, 16383, 2047>>, e |-> -MantBits]
  ELSE decimal64(r, RandScale)

\* Math.floor(Math.random() * n) for a draw r
randomIndex(r, n) == floor64(timesBinary64(random64(r), decimal64(n, 1)))

\* the literals of the program
exit64 == decimal64(100, 1)
zone1End64 == decimal64(25, 1)
zone2End64 == decimal64(50, 1)
zone3End64 == decimal64(75, 1)
stallSpeed64 == decimal64(2, 10)
slowFactor64 == decimal64(3, 10)
truckBase64 == decimal64(3, 10)
truckSpan64 == decimal64(2, 10)
carBase64 == decimal64(5, 10)
carSpan64 == decimal64(3, 10)
tempBase64 == decimal64(20, 1)
tempSpan64 == decimal64(15, 1)
heatLimit64 == decimal64(30, 1)

\* ------------------------------------------------------------ variables
VARIABLES
  isRunning,            \* useState(false)
  vehicles,             \* useState<Vehicle[]>([])
  simulationTime,       \* useState(0), in tenths
  vehicleCount,         \* useState(0)
  airQuality,           \* useState(85)
  temperature,          \* useState(22)
  visibility,           \* useState(95)
  ventilationLevel,     \* useState(60)
  aiInsights,           \* useState<AIInsight[]>([])
  incidentDetected,     \* useState(false)
  animationFrameRef,    \* useRef<number>(), 0 stands for undefined
  lastSpawnTimeRef,     \* useRef(0)
  vehicleIdCounterRef,  \* useRef(0)
  frames,               \* callbacks registered with requestAnimationFrame
  pending,              \* state updates queued by animate and not yet rendered
  now,                  \* the browser clock: timestamp of the last frame
  history,              \* every alert created since the last reset, oldest first
  spawnThreshold        \* 2000 + Math.random() * 2000 of the last frame, 0 before it

vars == <<isRunning, vehicles, simulationTime, vehicleCount, airQuality,
          temperature, visibility, ventilationLevel, aiInsights,
          incidentDetected, animationFrameRef, lastSpawnTimeRef,
          vehicleIdCounterRef, frames, pending, now, history, spawnThreshold>>

\* what the read-only snapshot accessor of the core shows
snapshot == <<vehicles, vehicleCount, simulationTime, airQuality, temperature,
              visibility, aiInsights, incidentDetected>>

\* Clock reading when the component mounts.
InitialClock == 2500

\* nothing queued
NoUpdates == [base |-> <<>>, updates |-> <<>>]

Init ==
  /\ isRunning = FALSE
  /\ vehicles = <<>>
  /\ simulationTime = 0
  /\ vehicleCount = 0
  /\ airQuality = 85 * EnvScale
  /\ temperature = 22 * EnvScale
  /\ visibility = 95 * EnvScale
  /\ ventilationLevel = 60
  /\ aiInsights = <<>>
  /\ incidentDetected = FALSE
  /\ animationFrameRef = 0
  /\ lastSpawnTimeRef = 0
  /\ vehicleIdCounterRef = 0
  /\ frames = {}
  /\ pending = NoUpdates
  /\ now = InitialClock
  /\ history = <<>>
  /\ spawnThreshold = 0

\* ------------------------------------------------- spawnVehicle (65-82)
vehicleTypes == <<"car", "car", "car", "truck", "car">>
colors == <<"#3b82f6", "#ef4444", "#10b981", "#f59e0b", "#8b5cf6">>

\* type === 'truck' ? 0.3 + Math.random() * 0.2 : 0.5 + Math.random() * 0.3
spawnSpeed(type, r) ==
  IF type = "truck"
  THEN plusBinary64(truckBase64, timesBinary64(random64(r), truckSpan64))
  ELSE plusBinary64(carBase64, timesBinary64(random64(r), carSpan64))

\* variant: the id is built without the counter
spawnVehicle_constantId(d, counter) ==
  LET type == vehicleTypes[randomIndex(d.rType, Len(vehicleTypes)) + 1]
  IN [ id          |-> 0,
       lane        |-> randomIndex(d.rLane, 3),
       position    |-> zero64,
       speed       |-> spawnSpeed(type, d.rSpeed),
       type        |-> type,
       color       |-> colors[randomIndex(d.rColor, Len(colors)) + 1],
       temperature |-> plusBinary64(tempBase64, timesBinary64(random64(d.rTemp), tempSpan64)),
       detected    |-> FALSE ]
\* d holds the five Math.random() draws of one call, counter the id counter
spawnVehicle(d, counter) ==
  LET type == vehicleTypes[randomIndex(d.rType, Len(vehicleTypes)) + 1]
  IN [ id          |-> counter,
       lane        |-> randomIndex(d.rLane, 3),
       position    |-> zero64,
       speed       |-> spawnSpeed(type, d.rSpeed),
       type        |-> type,
       color       |-> colors[randomIndex(d.rColor, Len(colors)) + 1],
       temperature |-> plusBinary64(tempBase64, timesBinary64(random64(d.rTemp), tempSpan64)),
       detected    |-> FALSE ]

\* --------------------------------------- getCameraZoneForPosition (121-126)
\* variant: the bands end at the camera positions 20, 40 and 60
getCameraZoneForPosition_atCameras(position) ==
  IF lessBinary64(position, decimal64(20, 1)) THEN "CAM-01"
  ELSE IF lessBinary64(position, decimal64(40, 1)) THEN "CAM-02"
  ELSE IF lessBinary64(position, decimal64(60, 1)) THEN "CAM-03"
  ELSE "CAM-04"
getCameraZoneForPosition(position) ==
  IF lessBinary64(position, zone1End64) THEN "CAM-01"
  ELSE IF lessBinary64(position, zone2End64) THEN "CAM-02"
  ELSE IF lessBinary64(position, zone3End64) THEN "CAM-03"
  ELSE "CAM-04"

\* ------------------------------------------------ detectIncidents (85-118)
\* variant: the stall rule compares with 0.5
isStalled_belowHalf(v) == lessBinary64(v.speed, carBase64)
\* speed < 0.2
isStalled(v) == lessBinary64(v.speed, stallSpeed64)
\* variant: the heat rule compares with 35
isOverheated_above35(v) == lessBinary64(decimal64(35, 1), v.temperature)
\* temperature > 30
isOverheated(v) == lessBinary64(heatLimit64, v.temperature)

stallInsight(v, clock) ==
  [ id        |-> clock,
    timestamp |-> clock,
    type      |-> "warning",
    message   |-> <<"Slow/stopped", v.type, v.lane + 1, round64(v.position)>>,
    zone      |-> getCameraZoneForPosition(v.position) ]

heatInsight(v, clock) ==
  [ id        |-> clock,
    timestamp |-> clock,
    type      |-> "critical",
    message   |-> <<"Hot spot", v.type, round64(v.temperature), v.lane + 1>>,
    zone      |-> getCameraZoneForPosition(v.position) ]

\* the stall rule calls setIncidentDetected(true) (90); calls holds the
\* arguments of the calls made so far
stallRaisesIncident(calls) == Append(calls, TRUE)
\* variant: the heat rule calls setIncidentDetected(false)
heatRaisesIncident_overwrites(calls) == Append(calls, FALSE)
\* the heat rule (104-116) makes no call of setIncidentDetected
heatRaisesIncident(calls) == calls

\* variant: the heat rule tests the flag the vehicle had before the stall rule
detectVehicle_staleFlag(v, acc, clock) ==
  LET stall == isStalled(v) /\ ~v.detected
      acc1  == IF stall
               THEN [acc EXCEPT
                       !.flag    = stallRaisesIncident(acc.flag),
                       !.made    = Append(acc.made, stallInsight(v, clock)),
                       !.history  = Append(acc.history,
                                      [vehicle |-> v.id, insight |-> stallInsight(v, clock)])]
               ELSE acc
      heat  == isOverheated(v) /\ ~v.detected
      acc2  == IF heat
               THEN [acc1 EXCEPT
                       !.flag    = heatRaisesIncident(acc1.flag),
                       !.made    = Append(acc1.made, heatInsight(v, clock)),
                       !.history  = Append(acc1.history,
                                      [vehicle |-> v.id, insight |-> heatInsight(v, clock)])]
               ELSE acc1
  IN [acc2 EXCEPT !.vehicles =
        Append(acc2.vehicles, [v EXCEPT !.detected = v.detected \/ stall \/ heat])]
\* body of the forEach callback for one vehicle; acc carries the scanned
\* vehicles, the insights made (one setAiInsights call each, in order), the
\* arguments of the setIncidentDetected calls and the alert history
detectVehicle(v, acc, clock) ==
  LET stall == isStalled(v) /\ ~v.detected
      v1    == IF stall THEN [v EXCEPT !.detected = TRUE] ELSE v
      acc1  == IF stall
               THEN [acc EXCEPT
                       !.flag    = stallRaisesIncident(acc.flag),
                       !.made    = Append(acc.made, stallInsight(v, clock)),
                       !.history  = Append(acc.history,
                                      [vehicle |-> v.id, insight |-> stallInsight(v, clock)])]
               ELSE acc
      heat  == isOverheated(v1) /\ ~v1.detected
      v2    == IF heat THEN [v1 EXCEPT !.detected = TRUE] ELSE v1
      acc2  == IF heat
               THEN [acc1 EXCEPT
                       !.flag    = heatRaisesIncident(acc1.flag),
                       !.made    = Append(acc1.made, heatInsight(v1, clock)),
                       !.history  = Append(acc1.history,
                                      [vehicle |-> v1.id, insight |-> heatInsight(v1, clock)])]
               ELSE acc1
  IN [acc2 EXCEPT !.vehicles = Append(acc2.vehicles, v2)]

RECURSIVE detectFrom(_, _, _, _)
detectFrom(vehicleList, i, acc, clock) ==
  IF i > Len(vehicleList) THEN acc
  ELSE detectFrom(vehicleList, i + 1, detectVehicle(vehicleList[i], acc, clock), clock)

detectIncidents(vehicleList, hist, clock) ==
  detectFrom(vehicleList, 1,
             [vehicles |-> <<>>, made |-> <<>>, flag |-> <<>>, history |-> hist],
             clock)

\* the queued setAiInsights updaters of the insights made, run in order
RECURSIVE pushInsights(_, _)
pushInsights(made, prev) ==
  IF made = <<>> THEN prev
  ELSE pushInsights(Tail(made), pushInsight(Head(made), prev))

\* the queued setIncidentDetected calls, run in order
flagAfter(calls, prev) == IF calls = <<>> THEN prev ELSE calls[Len(calls)]

\* ------------------------------------ requestAnimationFrame bookkeeping
\* A registered callback is the animate closure of one render: its request
\* id and the isRunning value that render captured.
frameIds(fs) == {f.id : f \in fs}

\* The handle requestAnimationFrame returns: one that no registered callback
\* holds (handles only matter through equality with animationFrameRef).
requestId(fs) == CHOOSE n \in 1..(Cardinality(fs) + 1) :
                   /\ n \notin frameIds(fs)
                   /\ \A m \in 1..(n - 1) : m \in frameIds(fs)

requestAnimationFrame(fs, captured) == fs \cup {[id |-> requestId(fs), isRunning |-> captured]}

cancelAnimationFrame(fs, id) == {f \in fs : f.id # id}

\* ------------------------------------------ useEffect([isRunning]) (166-178)
\* cleanup returned by the previous run of the effect
effectCleanup(fs, ref) == IF ref # 0 THEN cancelAnimationFrame(fs, ref) ELSE fs

\* body of the effect for the new value of isRunning
effectBody(running, fs, ref) ==
  IF running
  THEN [frames |-> requestAnimationFrame(fs, running), ref |-> requestId(fs)]
  ELSE IF ref # 0
       THEN [frames |-> cancelAnimationFrame(fs, ref), ref |-> ref]
       ELSE [frames |-> fs, ref |-> ref]

\* the effect re-runs (cleanup, then body) only when isRunning changed; it is
\* flushed with the render of the click that changed it
useEffectIsRunning(old, new, fs, ref) ==
  IF old = new THEN [frames |-> fs, ref |-> ref]
  ELSE effectBody(new, effectCleanup(fs, ref), ref)

\* ------------------------------------------- queued state updates
\* The updates one call of animate queues (134-160): the spawn updater when
\* the gate opened, the map updater, the three signal updaters and the time
\* updater.  React evaluates the first set-state call made on a component
\* with no update pending at the call: spawned holds the vehicle when that
\* call was the spawn updater of line 134, called holds the outcome of the
\* map updater when that call was the map updater of line 139 (gate
\* closed).  Otherwise the updater runs at the render.
frameUpdate(spawn, spawned, called) ==
  [kind |-> "frame", spawn |-> spawn, spawned |-> spawned, called |-> called]

\* The set-state calls of resetSimulation (182-191) queued behind a frame.
resetUpdate == [kind |-> "reset", spawn |-> FALSE, spawned |-> <<>>, called |-> <<>>]

\* setIncidentDetected(false) of the Acknowledge button queued behind a frame.
acknowledgeUpdate ==
  [kind |-> "acknowledge", spawn |-> FALSE, spawned |-> <<>>, called |-> <<>>]

\* u is queued; base is the vehicle list of the last render, which the
\* queued updaters of setVehicles start from
queueUpdate(q, committed, u) ==
  [base    |-> IF q.updates = <<>> THEN committed ELSE q.base,
   updates |-> Append(q.updates, u)]

\* ------------------------------------------------------ animate (129-163)
\* 2000 + Math.random() * 2000
gateThreshold(rGate) == 2000 + (rGate * 2000) \div RandScale

\* timestamp - lastSpawnTimeRef.current > 2000 + Math.random() * 2000
spawnDue(timestamp, lastSpawn, rGate) ==
  (timestamp - lastSpawn) * RandScale > 2000 * RandScale + rGate * 2000

\* Math.random() > 0.995
slowdownDrawn(r) == r * 1000 > 995 * RandScale

\* variant: the slowdown halves the speed
slowDown_halves(speed) == timesBinary64(speed, carBase64)
\* v.speed * 0.3
slowDown(speed) == timesBinary64(speed, slowFactor64)

\* variant: the mapped object is built without copying the detected flag
moveVehicle_freshFlag(v, r) ==
  [v EXCEPT !.position = plusBinary64(v.position, v.speed),
            !.speed    = IF slowdownDrawn(r) THEN slowDown(v.speed) ELSE v.speed,
            !.detected = FALSE]
\* one element of prev.map(...)
moveVehicle(v, r) ==
  [v EXCEPT !.position = plusBinary64(v.position, v.speed),
            !.speed    = IF slowdownDrawn(r) THEN slowDown(v.speed) ELSE v.speed]

\* .filter(v => v.position < 100)
inTunnel(v) == lessBinary64(v.position, exit64)

\* variant: exited vehicles are not filtered out
updateVehicles_noFilter(prev, rSlow) ==
  [i \in 1..Len(prev) |-> moveVehicle(prev[i], rSlow[i])]
updateVehicles(prev, rSlow) ==
  SelectSeq([i \in 1..Len(prev) |-> moveVehicle(prev[i], rSlow[i])], inTunnel)

\* Math.max(lo, Math.min(hi, prev + (Math.random() - 0.5) * delta)), with
\* delta in tenths
\* variant: only the lower bound is enforced
clampWalk_noUpper(prev, r, deltaTenths, lo, hi) ==
  LET step == ((2 * r - RandScale) * deltaTenths * EnvScale) \div (2 * RandScale * 10)
  IN Max(lo * EnvScale, prev + step)
clampWalk(prev, r, deltaTenths, lo, hi) ==
  LET step == ((2 * r - RandScale) * deltaTenths * EnvScale) \div (2 * RandScale * 10)
  IN Max(lo * EnvScale, Min(hi * EnvScale, prev + step))

nextAirQuality(prev, r)  == clampWalk(prev, r, 20, 70, 100)
nextTemperature(prev, r) == clampWalk(prev, r, 5, 18, 28)
nextVisibility(prev, r)  == clampWalk(prev, r, 10, 80, 100)

\* setVehicleCount(updated.length)
nextVehicleCount(prev, updated) == Len(updated)

\* the list the map updater has mapped and filtered, scanned by
\* detectIncidents (149) and counted for setVehicleCount (150)
scanUpdated(prev, updated, hist, clock) ==
  [ scan  |-> detectIncidents(updated, hist, clock),
    count |-> nextVehicleCount(prev, updated) ]

\* The map updater of line 139 run on the list prev: the list it returns
\* (scan.vehicles), the insights and flag calls the scan made, the alert
\* history and the argument of setVehicleCount.
mapUpdater(prev, rSlow, hist, clock) ==
  scanUpdated(prev, updateVehicles(prev, rSlow), hist, clock)

\* The callback f fires for the frame at `timestamp`: it tests the spawn
\* gate with the draw rGate, queues the updates of the frame, writes
\* lastSpawnTimeRef and requests the next frame.  When eager holds (the
\* component has no update pending) the first set-state call is evaluated
\* here: the spawn updater with the draws d of spawnVehicle when the gate
\* opened, otherwise the map updater with the slowdown draws rSlow, whose
\* calls of setIncidentDetected, setAiInsights and setVehicleCount are then
\* queued by the callback.
animate(f, timestamp, rGate, eager, d, rSlow) ==
  /\ f \in frames
  /\ now' = timestamp
  /\ IF ~f.isRunning
     THEN /\ frames' = frames \ {f}
          /\ UNCHANGED <<isRunning, vehicles, simulationTime, vehicleCount,
                         airQuality, temperature, visibility, ventilationLevel,
                         aiInsights, incidentDetected, animationFrameRef,
                         lastSpawnTimeRef, vehicleIdCounterRef, pending,
                         history, spawnThreshold>>
     ELSE LET spawn == spawnDue(timestamp, lastSpawnTimeRef, rGate)
              early == eager /\ pending.updates = <<>>
              rest  == frames \ {f}
          IN /\ \E called \in { IF early /\ ~spawn
                                THEN <<mapUpdater(vehicles, rSlow, history, timestamp)>>
                                ELSE <<>> } :
                  /\ pending' = queueUpdate(pending, vehicles,
                                  frameUpdate(spawn,
                                    IF early /\ spawn
                                    THEN <<spawnVehicle(d, vehicleIdCounterRef)>>
                                    ELSE <<>>,
                                    called))
                  /\ history' = IF called = <<>> THEN history ELSE called[1].scan.history
             /\ vehicleIdCounterRef' = IF early /\ spawn THEN vehicleIdCounterRef + 1
                                       ELSE vehicleIdCounterRef
             /\ lastSpawnTimeRef' = IF spawn THEN timestamp ELSE lastSpawnTimeRef
             /\ spawnThreshold' = gateThreshold(rGate)
             /\ animationFrameRef' = requestId(rest)
             /\ frames' = requestAnimationFrame(rest, f.isRunning)
             /\ UNCHANGED <<isRunning, vehicles, simulationTime, vehicleCount,
                            airQuality, temperature, visibility,
                            ventilationLevel, aiInsights, incidentDetected>>

\* ------------------------------------------- the render of queued updates
\* the alert was made for a vehicle that a reset has removed from the list
NoVehicle == -1

\* The values after the updates of one frame: out is the outcome of its map
\* updater.  When the updater was evaluated at the call, the calls it made
\* were queued with the frame, ahead of what a later click queued.  When it
\* runs in the render, the calls of detectIncidents and setVehicleCount are
\* made during the render and come behind every update queued before it:
\* they are kept in late.
frameResult(atCall, fresh, out, draw, acc) ==
  [ vehicles       |-> out.scan.vehicles,
    counter        |-> IF fresh THEN acc.counter + 1 ELSE acc.counter,
    insights       |-> IF atCall THEN pushInsights(out.scan.made, acc.insights)
                       ELSE acc.insights,
    incident       |-> IF atCall THEN flagAfter(out.scan.flag, acc.incident)
                       ELSE acc.incident,
    count          |-> IF atCall THEN out.count ELSE acc.count,
    history        |-> IF atCall THEN acc.history ELSE out.scan.history,
    late           |-> IF atCall THEN acc.late
                       ELSE Append(acc.late, [made  |-> out.scan.made,
                                              flag  |-> out.scan.flag,
                                              count |-> out.count]),
    airQuality     |-> nextAirQuality(acc.airQuality, draw.e[1]),
    temperature    |-> nextTemperature(acc.temperature, draw.e[2]),
    visibility     |-> nextVisibility(acc.visibility, draw.e[3]),
    simulationTime |-> acc.simulationTime + 1 ]

\* the list the map updater of the frame runs over in the render: the list
\* so far plus the spawn
listWithSpawn(u, fresh, draw, acc) ==
  IF ~u.spawn THEN acc.vehicles
  ELSE Append(acc.vehicles,
              IF fresh THEN spawnVehicle(draw.d, acc.counter) ELSE u.spawned[1])

\* The updates of one frame applied in a render.  acc holds the values under
\* construction: vehicles, simulationTime and the three signals are the
\* results of the queued updaters.
applyFrame(u, draw, acc, clock) ==
  IF u.called # <<>>
  THEN frameResult(TRUE, FALSE, u.called[1], draw, acc)
  ELSE frameResult(FALSE, u.spawn /\ u.spawned = <<>>,
                   mapUpdater(listWithSpawn(u, u.spawn /\ u.spawned = <<>>, draw, acc),
                              draw.rSlow, acc.history, clock),
                   draw, acc)

\* The queued set-state calls of resetSimulation applied in a render: they
\* replace what the updates queued before them computed.  The alerts made
\* so far in this render were made for vehicles of the replaced list.
applyReset(acc) ==
  [acc EXCEPT !.vehicles       = <<>>,
              !.count          = 0,
              !.insights       = <<>>,
              !.incident       = FALSE,
              !.airQuality     = 85 * EnvScale,
              !.temperature    = 22 * EnvScale,
              !.visibility     = 95 * EnvScale,
              !.simulationTime = 0,
              !.history        = [k \in 1..Len(acc.history) |->
                                    IF k > Len(history)
                                    THEN [acc.history[k] EXCEPT !.vehicle = NoVehicle]
                                    ELSE acc.history[k]]]

\* The queued setIncidentDetected(false) of an acknowledgement.
applyAcknowledge(acc) == [acc EXCEPT !.incident = FALSE]

\* the queued updates i.. applied in order; k frames have been applied and
\* draws[k + 1] holds the draws of the next one
RECURSIVE applyUpdates(_, _, _, _, _, _)
applyUpdates(updates, i, draws, k, acc, clock) ==
  IF i > Len(updates) THEN acc
  ELSE IF updates[i].kind = "reset"
  THEN applyUpdates(updates, i + 1, draws, k, applyReset(acc), clock)
  ELSE IF updates[i].kind = "acknowledge"
  THEN applyUpdates(updates, i + 1, draws, k, applyAcknowledge(acc), clock)
  ELSE applyUpdates(updates, i + 1, draws, k + 1,
                    applyFrame(updates[i], draws[k + 1], acc, clock), clock)

\* the calls made by the map updaters that ran in the render, applied in
\* order behind the queued updates
RECURSIVE applyLate(_, _)
applyLate(acc, i) ==
  IF i > Len(acc.late) THEN acc
  ELSE applyLate([acc EXCEPT
                    !.insights = pushInsights(acc.late[i].made, acc.insights),
                    !.incident = flagAfter(acc.late[i].flag, acc.incident),
                    !.count    = acc.late[i].count],
                 i + 1)

\* number of frames among the queued updates
queuedFrames(updates) ==
  Cardinality({i \in 1..Len(updates) : updates[i].kind = "frame"})

\* React renders the queued updates.  draws holds, for each queued frame, the
\* Math.random() draws of spawnVehicle (d), of the per-vehicle slowdown
\* (rSlow) and of the three environmental signals (e).
render(draws) ==
  /\ pending.updates # <<>>
  /\ Len(draws) = queuedFrames(pending.updates)
  /\ \E out \in { applyLate(applyUpdates(pending.updates, 1, draws, 0,
                     [ vehicles       |-> pending.base,
                       counter        |-> vehicleIdCounterRef,
                       insights       |-> aiInsights,
                       incident       |-> incidentDetected,
                       history        |-> history,
                       count          |-> vehicleCount,
                       late           |-> <<>>,
                       airQuality     |-> airQuality,
                       temperature    |-> temperature,
                       visibility     |-> visibility,
                       simulationTime |-> simulationTime ], now), 1) } :
       /\ vehicles' = out.vehicles
       /\ vehicleIdCounterRef' = out.counter
       /\ aiInsights' = out.insights
       /\ incidentDetected' = out.incident
       /\ history' = out.history
       /\ vehicleCount' = out.count
       /\ airQuality' = out.airQuality
       /\ temperature' = out.temperature
       /\ visibility' = out.visibility
       /\ simulationTime' = out.simulationTime
  /\ pending' = NoUpdates
  /\ UNCHANGED <<isRunning, ventilationLevel, animationFrameRef,
                 lastSpawnTimeRef, frames, now, spawnThreshold>>

\* ------------------------------------- Start/Pause button onClick (219-229)
\* variant: the click handler also requests a frame itself
startSimulation_alsoRequests ==
  /\ ~isRunning
  /\ isRunning' = TRUE
  /\ LET eff == useEffectIsRunning(isRunning, TRUE, frames, animationFrameRef)
     IN /\ frames' = requestAnimationFrame(eff.frames, TRUE)
        /\ animationFrameRef' = eff.ref
  /\ UNCHANGED <<vehicles, simulationTime, vehicleCount, airQuality, temperature,
                 visibility, ventilationLevel, aiInsights, incidentDetected,
                 lastSpawnTimeRef, vehicleIdCounterRef, pending, now, history,
                 spawnThreshold>>

startSimulation ==
  /\ ~isRunning
  /\ isRunning' = TRUE
  /\ LET eff == useEffectIsRunning(isRunning, TRUE, frames, animationFrameRef)
     IN /\ frames' = eff.frames
        /\ animationFrameRef' = eff.ref
  /\ UNCHANGED <<vehicles, simulationTime, vehicleCount, airQuality, temperature,
                 visibility, ventilationLevel, aiInsights, incidentDetected,
                 lastSpawnTimeRef, vehicleIdCounterRef, pending, now, history,
                 spawnThreshold>>

pauseSimulation ==
  /\ isRunning
  /\ isRunning' = FALSE
  /\ LET eff == useEffectIsRunning(isRunning, FALSE, frames, animationFrameRef)
     IN /\ frames' = eff.frames
        /\ animationFrameRef' = eff.ref
  /\ UNCHANGED <<vehicles, simulationTime, vehicleCount, airQuality, temperature,
                 visibility, ventilationLevel, aiInsights, incidentDetected,
                 lastSpawnTimeRef, vehicleIdCounterRef, pending, now, history,
                 spawnThreshold>>

\* ---------------------------------------------- resetSimulation (181-193)
\* the set-state calls of a reset are rendered with the click; while updates
\* of a frame are queued they are also queued behind them (a reset queued
\* right behind a reset sets the same values again and is not recorded)
queueReset(q) ==
  IF q.updates = <<>> \/ q.updates[Len(q.updates)].kind = "reset" THEN q
  ELSE queueUpdate(q, q.base, resetUpdate)

\* the set-state call of an acknowledgement is rendered with the click;
\* while updates of a frame are queued it is also queued behind them
queueAcknowledge(q) ==
  IF q.updates = <<>> THEN q ELSE queueUpdate(q, q.base, acknowledgeUpdate)

\* variant: the id counter is not rewound
resetSimulation_keepsCounter ==
  /\ isRunning' = FALSE
  /\ vehicles' = <<>>
  /\ simulationTime' = 0
  /\ vehicleCount' = 0
  /\ airQuality' = 85 * EnvScale
  /\ temperature' = 22 * EnvScale
  /\ visibility' = 95 * EnvScale
  /\ ventilationLevel' = 60
  /\ aiInsights' = <<>>
  /\ incidentDetected' = FALSE
  /\ history' = <<>>
  /\ pending' = queueReset(pending)
  /\ LET eff == useEffectIsRunning(isRunning, FALSE, frames, animationFrameRef)
     IN /\ frames' = eff.frames
        /\ animationFrameRef' = eff.ref
  /\ UNCHANGED <<lastSpawnTimeRef, now, vehicleIdCounterRef, spawnThreshold>>

resetSimulation ==
  /\ isRunning' = FALSE
  /\ vehicles' = <<>>
  /\ simulationTime' = 0
  /\ vehicleCount' = 0
  /\ airQuality' = 85 * EnvScale
  /\ temperature' = 22 * EnvScale
  /\ visibility' = 95 * EnvScale
  /\ ventilationLevel' = 60
  /\ aiInsights' = <<>>
  /\ incidentDetected' = FALSE
  /\ vehicleIdCounterRef' = 0
  /\ history' = <<>>
  /\ pending' = queueReset(pending)
  /\ LET eff == useEffectIsRunning(isRunning, FALSE, frames, animationFrameRef)
     IN /\ frames' = eff.frames
        /\ animationFrameRef' = eff.ref
  /\ UNCHANGED <<lastSpawnTimeRef, now, spawnThreshold>>

\* ------------------------------------ Acknowledge button onClick (421-426)
\* variant: acknowledging also empties the Alert Log
acknowledgeIncident_clearsLog ==
  /\ incidentDetected
  /\ incidentDetected' = FALSE
  /\ aiInsights' = <<>>
  /\ pending' = queueAcknowledge(pending)
  /\ UNCHANGED <<isRunning, vehicles, simulationTime, vehicleCount, airQuality,
                 temperature, visibility, ventilationLevel,
                 animationFrameRef, lastSpawnTimeRef, vehicleIdCounterRef,
                 frames, now, history, spawnThreshold>>

\* the button is rendered only while incidentDetected is true (412)
acknowledgeIncident ==
  /\ incidentDetected
  /\ incidentDetected' = FALSE
  /\ pending' = queueAcknowledge(pending)
  /\ UNCHANGED <<isRunning, vehicles, simulationTime, vehicleCount, airQuality,
                 temperature, visibility, ventilationLevel, aiInsights,
                 animationFrameRef, lastSpawnTimeRef, vehicleIdCounterRef,
                 frames, now, history, spawnThreshold>>

\* ------------------------------------------------------ inputs of a frame
\* speed multiplied k times by the literal 0.3
RECURSIVE slowedBy(_, _)
slowedBy(speed, k) ==
  IF k = 0 THEN speed ELSE slowedBy(timesBinary64(speed, slowFactor64), k - 1)

\* the lowest speed of a vehicle that has been slowed fewer than MaxSlowdowns
\* times: the lowest spawn speed, 0.3, slowed MaxSlowdowns - 1 times
lowestOpenSpeed == slowedBy(truckBase64, MaxSlowdowns - 1)

\* a vehicle that has been slowed fewer than MaxSlowdowns times
canSlow(v) == leqBinary64(lowestOpenSpeed, v.speed)

\* per-vehicle slowdown draws: at most one vehicle draws above 0.995 in a
\* tick, and it is the oldest vehicle that can still be slowed
SlowDraws(prev) ==
  LET open == {i \in 1..Len(prev) : canSlow(prev[i])}
  IN { [i \in 1..Len(prev) |-> IF i = k THEN 998 ELSE 0] :
         k \in {0} \cup {i \in open : \A j \in open : i <= j} }

\* the list the map updater of the queued frame runs over: the list of the
\* last render plus the spawn
renderList(d) ==
  LET u == pending.updates[1]
  IN IF ~u.spawn THEN pending.base
     ELSE Append(pending.base,
                 IF u.spawned = <<>> THEN spawnVehicle(d, vehicleIdCounterRef)
                 ELSE u.spawned[1])

idsLeft(timestamp, rGate) ==
  spawnDue(timestamp, lastSpawnTimeRef, rGate) => vehicleIdCounterRef < MaxVehicleIds

\* the Math.random() draws of a step that makes them; a step that does not
\* make them draws nothing, which one fixed draw stands for
drawsOf(called, draws) == IF called THEN draws ELSE {CHOOSE d \in draws : TRUE}

\* the render runs the spawn updater: the callback queued it and did not
\* evaluate it
spawnsAtRender ==
  /\ pending.updates # <<>>
  /\ pending.updates[1].spawn
  /\ pending.updates[1].spawned = <<>>

\* the render runs the map updater: the callback did not evaluate it
mapsAtRender ==
  /\ pending.updates # <<>>
  /\ pending.updates[1].called = <<>>

\* the browser delivers a frame once React has rendered the updates of the
\* frame before it
frameDue == pending.updates = <<>>

\* coarse frames: the browser delivers a frame every 2.5 s, so a frame spawns
\* when the gate draws its lowest threshold and may skip when it draws high
CoarseGap == 2500
GateDraws == {0, 998}
SpawnDraws ==
  { [rType |-> 0,   rLane |-> 0,   rSpeed |-> 0,   rColor |-> 0,   rTemp |-> 0],
    [rType |-> 700, rLane |-> 998, rSpeed |-> 500, rColor |-> 500, rTemp |-> 700] }
EnvDraws == { <<0, 998, 0>> }

Tick ==
  \E f \in frames, rGate \in GateDraws, eager \in BOOLEAN :
    LET timestamp == now + CoarseGap
        due       == spawnDue(timestamp, lastSpawnTimeRef, rGate)
    IN \E d \in drawsOf(eager /\ due, SpawnDraws),
          rSlow \in drawsOf(eager /\ ~due, SlowDraws(vehicles)) :
         /\ frameDue
         /\ timestamp <= InitialClock + CoarseGap * MaxCoarseFrames
         /\ idsLeft(timestamp, rGate)
         /\ animate(f, timestamp, rGate, eager, d, rSlow)

Render ==
  \E d \in drawsOf(spawnsAtRender, SpawnDraws), e \in EnvDraws :
    /\ pending.updates # <<>>
    /\ \E rSlow \in drawsOf(mapsAtRender, SlowDraws(renderList(d))) :
         render(<<[d |-> d, rSlow |-> rSlow, e |-> e]>>)

Next ==
  \/ startSimulation
  \/ pauseSimulation
  \/ resetSimulation
  \/ acknowledgeIncident
  \/ Tick
  \/ Render

Spec == Init /\ [][Next]_vars

\* fine frames: 60 frames per second and the lowest spawn threshold; a car
\* spawns at 0.665 (stalled once slowed) or at 0.788 (it leaves in the frame
\* that spawns the next vehicle); the slowdown is drawn only for a vehicle in
\* the last two percent of a camera band, where it decides the zone of the
\* alert and, at the exit, between leaving and being scanned as stalled
FineGap == 16
LongSpawnDraws ==
  { [rType |-> 0, rLane |-> 500, rSpeed |-> 550, rColor |-> 0, rTemp |-> 0],
    [rType |-> 0, rLane |-> 0,   rSpeed |-> 960, rColor |-> 0, rTemp |-> 0] }
LongEnvDraws == { <<998, 0, 998>> }
LongSlowDraws(prev) ==
  LET open == {i \in 1..Len(prev) :
                 canSlow(prev[i]) /\ floor64(prev[i].position) % 25 >= 23}
  IN { [i \in 1..Len(prev) |-> IF i = k THEN 998 ELSE 0] :
         k \in {0} \cup {i \in open : \A j \in open : i <= j} }

TickLong ==
  \E f \in frames, eager \in BOOLEAN :
    LET timestamp == now + FineGap
        due       == spawnDue(timestamp, lastSpawnTimeRef, 0)
    IN \E d \in drawsOf(eager /\ due, LongSpawnDraws),
          rSlow \in drawsOf(eager /\ ~due, LongSlowDraws(vehicles)) :
         /\ frameDue
         /\ timestamp <= InitialClock + FineGap * MaxLongFrames
         /\ idsLeft(timestamp, 0)
         /\ animate(f, timestamp, 0, eager, d, rSlow)

RenderLong ==
  \E d \in drawsOf(spawnsAtRender, LongSpawnDraws), e \in LongEnvDraws :
    /\ pending.updates # <<>>
    /\ \E rSlow \in drawsOf(mapsAtRender, LongSlowDraws(renderList(d))) :
         render(<<[d |-> d, rSlow |-> rSlow, e |-> e]>>)

NextLong ==
  \/ startSimulation
  \/ pauseSimulation
  \/ resetSimulation
  \/ acknowledgeIncident
  \/ TickLong
  \/ RenderLong

SpecLong == Init /\ [][NextLong]_vars

\* environmental run: fine frames, the three signals all step down or all
\* step up by their largest step; spawnVehicle draws a truck at 30.5 degrees
\* or the largest number Math.random() returns five times; the slowdown is
\* drawn only for a vehicle in the tick that spawns it
WalkEnvDraws == { <<0, 0, 0>>, <<998, 998, 998>> }
WalkSpawnDraws ==
  { [rType |-> 700, rLane |-> 998, rSpeed |-> 500, rColor |-> 500, rTemp |-> 700],
    [rType |-> Largest52, rLane |-> Largest52, rSpeed |-> Largest52,
     rColor |-> Largest52, rTemp |-> Largest52],
    [rType |-> Largest53, rLane |-> Largest53, rSpeed |-> Largest53,
     rColor |-> Largest53, rTemp |-> Largest53] }
EntrySlowDraws(prev) ==
  LET open == {i \in 1..Len(prev) : canSlow(prev[i]) /\ isZero64(prev[i].position)}
  IN { [i \in 1..Len(prev) |-> IF i = k THEN 998 ELSE 0] : k \in {0} \cup open }

TickEnv ==
  \E f \in frames, eager \in BOOLEAN :
    LET timestamp == now + FineGap
        due       == spawnDue(timestamp, lastSpawnTimeRef, 0)
    IN \E d \in drawsOf(eager /\ due, WalkSpawnDraws),
          rSlow \in drawsOf(eager /\ ~due, EntrySlowDraws(vehicles)) :
         /\ frameDue
         /\ timestamp <= InitialClock + FineGap * MaxEnvFrames
         /\ idsLeft(timestamp, 0)
         /\ animate(f, timestamp, 0, eager, d, rSlow)

RenderEnv ==
  \E d \in drawsOf(spawnsAtRender, WalkSpawnDraws), e \in WalkEnvDraws :
    /\ pending.updates # <<>>
    /\ \E rSlow \in drawsOf(mapsAtRender, EntrySlowDraws(renderList(d))) :
         render(<<[d |-> d, rSlow |-> rSlow, e |-> e]>>)

NextEnv ==
  \/ startSimulation
  \/ pauseSimulation
  \/ resetSimulation
  \/ acknowledgeIncident
  \/ TickEnv
  \/ RenderEnv

SpecEnv == Init /\ [][NextEnv]_vars

\* slowed run: fine frames and the lowest spawn threshold; every vehicle is a
\* cool car spawned at 0.5 and draws Math.random() > 0.995 in every tick, so
\* that every tick computes v.speed * 0.3 for it; the signals keep their
\* values; the buttons are clicked during the first frames only
SlowedSpawnDraws ==
  { [rType |-> 0, rLane |-> 0, rSpeed |-> 0, rColor |-> 0, rTemp |-> 0] }
SlowedEnvDraws == { <<500, 500, 500>> }
EverySlowDraws(prev) == { [i \in 1..Len(prev) |-> 998] }

TickSlowed ==
  \E f \in frames, eager \in BOOLEAN :
    LET timestamp == now + FineGap
        due       == spawnDue(timestamp, lastSpawnTimeRef, 0)
    IN \E d \in drawsOf(eager /\ due, SlowedSpawnDraws),
          rSlow \in drawsOf(eager /\ ~due, EverySlowDraws(vehicles)) :
         /\ frameDue
         /\ timestamp <= InitialClock + FineGap * MaxSlowedFrames
         /\ idsLeft(timestamp, 0)
         /\ animate(f, timestamp, 0, eager, d, rSlow)

RenderSlowed ==
  \E d \in drawsOf(spawnsAtRender, SlowedSpawnDraws), e \in SlowedEnvDraws :
    /\ pending.updates # <<>>
    /\ \E rSlow \in drawsOf(mapsAtRender, EverySlowDraws(renderList(d))) :
         render(<<[d |-> d, rSlow |-> rSlow, e |-> e]>>)

clicksDue == now <= InitialClock + FineGap * MaxSlowedClickFrames

NextSlowed ==
  \/ clicksDue /\ startSimulation
  \/ clicksDue /\ pauseSimulation
  \/ clicksDue /\ resetSimulation
  \/ clicksDue /\ acknowledgeIncident
  \/ TickSlowed
  \/ RenderSlowed

SpecSlowed == Init /\ [][NextSlowed]_vars

\* ================================================================ claims
idsOf(vs) == {vs[i].id : i \in 1..Len(vs)}
vehicleById(vs, id) == CHOOSE v \in {vs[i] : i \in 1..Len(vs)} : v.id = id
\* the insights of the history, newest first
newestFirst(h) == [i \in 1..Len(h) |-> h[Len(h) + 1 - i].insight]
\* the entries a step added to the history (none across a reset)
addedEntries == IF Len(history') > Len(history)
                THEN {history'[k] : k \in (Len(history) + 1)..Len(history')}
                ELSE {}
\* the step is a run of the animate callback
isFrame == now' # now
\* the step is a tick taking effect: the render of the updates of one frame,
\* no reset queued behind them
isTick == simulationTime' = simulationTime + 1
\* the step runs the map updater of a frame, and with it the detection pass:
\* the callback that evaluates it at the call, or the render of a frame
\* whose callback did not
scanAtCall ==
  /\ isFrame
  /\ Len(pending'.updates) > Len(pending.updates)
  /\ pending'.updates[Len(pending'.updates)].called # <<>>
scanAtRender == isTick /\ pending.updates[1].called = <<>>
isScan == scanAtCall \/ scanAtRender
\* the list that pass has mapped, filtered and scanned
scanned == IF scanAtCall THEN pending'.updates[Len(pending'.updates)].called[1].scan.vehicles
           ELSE vehicles'
\* the alerts created by a callback whose updates are queued: they enter the
\* Alert Log at the render, unless a reset is queued behind them
queuedAlerts ==
  IF /\ pending.updates # <<>>
     /\ pending.updates[1].called # <<>>
     /\ \A i \in 1..Len(pending.updates) : pending.updates[i].kind # "reset"
  THEN Len(pending.updates[1].called[1].scan.made)
  ELSE 0
\* the alerts created since the last reset that have been logged
logged == SubSeq(history, 1, Len(history) - queuedAlerts)

\* C1: while the simulation is paused no tick executes: every step taken
\* while isRunning is false leaves the vehicle list, vehicle count, elapsed
\* time, the three signals, the Alert Log and the incident flag unchanged,
\* unless it is a reset or an acknowledgement.
C1_PausedNoTick ==
  [][~isRunning => (UNCHANGED snapshot \/ resetSimulation \/ acknowledgeIncident)]_vars

\* the state reset() must leave
ResetState ==
  /\ vehicles = <<>>
  /\ simulationTime = 0
  /\ vehicleCount = 0
  /\ vehicleIdCounterRef = 0
  /\ airQuality = 85 * EnvScale
  /\ temperature = 22 * EnvScale
  /\ visibility = 95 * EnvScale
  /\ aiInsights = <<>>
  /\ incidentDetected = FALSE
  /\ isRunning = FALSE
  /\ frames = {}

\* C2: from any reachable state reset() leaves an empty vehicle set, elapsed
\* time 0, vehicle count 0, id counter 0, the default signals (85, 22, 95),
\* an empty Alert Log, the incident flag false and the Clock stopped with no
\* callback registered.
C2_ResetRestores == [][resetSimulation => ResetState']_vars

\* the reset state reached by a click between the callback of a frame that
\* spawned a vehicle and the render of its updates
C2_Witness ==
  /\ ResetState
  /\ pending.updates # <<>>
  /\ now > InitialClock
  /\ lastSpawnTimeRef > 0

\* C3: the Alert Log holds at most 5 alerts and is exactly the newest (up to)
\* five alerts created since the last reset, most recent first.
C3_AlertLogNewestFive ==
  /\ Len(aiInsights) <= 5
  /\ aiInsights = SubSeq(newestFirst(logged), 1, Min(Len(logged), 5))

\* a sixth alert has been created, so the oldest one was evicted
C3_Witness == Len(history) > 5 /\ Len(aiInsights) = 5

\* C4: a detected vehicle stays detected for as long as it is in the live set,
\* and no vehicle has more than one alert created for it.
C4_DetectedOnce ==
  /\ [](\A i, j \in 1..Len(history) :
          (i # j /\ history[i].vehicle # NoVehicle)
            => history[i].vehicle # history[j].vehicle)
  /\ [][\A i \in 1..Len(vehicles) :
          (vehicles[i].detected /\ vehicles[i].id \in idsOf(vehicles'))
            => /\ vehicleById(vehicles', vehicles[i].id).detected
               /\ \A a \in addedEntries : a.vehicle # vehicles[i].id]_vars

\* a vehicle alerted in an earlier tick that still matches both rules
C4_Witness ==
  \E i \in 1..Len(vehicles) :
    /\ vehicles[i].detected
    /\ isStalled(vehicles[i])
    /\ isOverheated(vehicles[i])
    /\ \E k \in 1..Len(history) :
         history[k].vehicle = vehicles[i].id /\ history[k].insight.id < now

\* C5: every detection pass that creates an alert, by the stall rule or by
\* the heat rule, leaves the incident flag true: the flag is true in every
\* snapshot that shows a new alert in the Alert Log.
C5_AlertRaisesFlag ==
  [][(aiInsights' # aiInsights /\ aiInsights' # <<>>) => incidentDetected']_vars

\* C6: once true the incident flag stays true across ticks, detections,
\* pause and start; only acknowledgeIncident or a reset makes it false.
C6_FlagSticky ==
  [][(incidentDetected /\ ~incidentDetected') =>
       (acknowledgeIncident \/ resetSimulation)]_vars

\* the flag is true after a tick that created no stall alert, so it was
\* raised by an earlier tick
C6_Witness ==
  /\ incidentDetected
  /\ simulationTime > 1
  /\ \E k \in 1..Len(history) :
       history[k].insight.type = "warning" /\ history[k].insight.id < now
  /\ \A k \in 1..Len(history) :
       history[k].insight.type = "warning" => history[k].insight.id < now

\* C7: acknowledgeIncident makes the incident flag false and changes nothing
\* else: Alert Log, vehicles, elapsed time, signals and the running state.
C7_AcknowledgeFrame ==
  [][acknowledgeIncident =>
       /\ ~incidentDetected'
       /\ UNCHANGED <<isRunning, vehicles, simulationTime, vehicleCount,
                      airQuality, temperature, visibility, ventilationLevel,
                      aiInsights, frames, animationFrameRef, lastSpawnTimeRef,
                      vehicleIdCounterRef, now, history>>]_vars

\* an acknowledged incident: a stall alert is in the log and the flag is false
C7_Witness ==
  /\ ~incidentDetected
  /\ \E k \in 1..Len(aiInsights) : aiInsights[k].type = "warning"

\* C8: every live vehicle has position in [0,100); a tick never decreases a
\* surviving vehicle's position; a vehicle whose updated position is >= 100
\* is gone after that tick and no alert is created for it in that tick.
C8_PositionsInTunnel ==
  /\ [](\A i \in 1..Len(vehicles) :
          /\ leqBinary64(zero64, vehicles[i].position)
          /\ lessBinary64(vehicles[i].position, exit64))
  /\ [][isTick =>
          \A i \in 1..Len(vehicles) :
            /\ vehicles[i].id \in idsOf(vehicles')
                 => leqBinary64(vehicles[i].position,
                                vehicleById(vehicles', vehicles[i].id).position)
            /\ leqBinary64(exit64, plusBinary64(vehicles[i].position, vehicles[i].speed))
                 => vehicles[i].id \notin idsOf(vehicles')]_vars
  /\ [][isScan =>
          \A i \in 1..Len(vehicles) :
            leqBinary64(exit64, plusBinary64(vehicles[i].position, vehicles[i].speed))
              => /\ vehicles[i].id \notin idsOf(scanned)
                 /\ \A a \in addedEntries : a.vehicle # vehicles[i].id]_vars

\* a vehicle spawned since the last reset has left the tunnel
C8_Witness ==
  /\ simulationTime >= 120
  /\ \E id \in 0..(vehicleIdCounterRef - 1) : id \notin idsOf(vehicles)

\* C9: air quality stays in [70,100], temperature in [18,28] and visibility
\* in [80,100].
C9_SignalsInBounds ==
  /\ airQuality >= 70 * EnvScale /\ airQuality <= 100 * EnvScale
  /\ temperature >= 18 * EnvScale /\ temperature <= 28 * EnvScale
  /\ visibility >= 80 * EnvScale /\ visibility <= 100 * EnvScale

\* every signal has walked down to its lower bound, was clamped there and
\* started from its default after the last reset
C9_Witness ==
  /\ airQuality = 70 * EnvScale
  /\ temperature = 18 * EnvScale
  /\ visibility = 80 * EnvScale

\* C10: no two alerts in the Alert Log share an id.
C10_UniqueAlertIds ==
  \A i, j \in 1..Len(aiInsights) :
    i # j => aiInsights[i].id # aiInsights[j].id


\* the values reset() assigns, as the snapshot shows them
PostResetSnapshot ==
  /\ vehicles = <<>>
  /\ vehicleCount = 0
  /\ simulationTime = 0
  /\ airQuality = 85 * EnvScale
  /\ temperature = 22 * EnvScale
  /\ visibility = 95 * EnvScale
  /\ aiInsights = <<>>

\* a reset was clicked after the callback of a frame and before the render of
\* the updates it queued
resetQueued == \E i \in 1..Len(pending.updates) : pending.updates[i].kind = "reset"

\* C11: reset wins against a pending tick: a reset leaves no callback
\* registered, and the updates of a callback that ran before the reset do
\* not change the post-reset snapshot afterwards.
C11_ResetWinsRace ==
  /\ [][resetSimulation => frames' = {}]_vars
  /\ [][(resetQueued /\ PostResetSnapshot) => PostResetSnapshot']_vars


\* positions in history' of the entries a step added for vehicle id
addedFor(id) == {k \in (Len(history) + 1)..Len(history') : history'[k].vehicle = id}
\* the vehicle was in the live set and detected before the step
wasDetected(id) == id \in idsOf(vehicles) /\ vehicleById(vehicles, id).detected

\* C12: in one detection pass a vehicle that was not detected gets at most
\* one alert, by rule order: a warning if speed < 0.2 (also when its
\* temperature is above 30), otherwise a critical alert if temperature > 30,
\* otherwise none and detected stays false; a detected vehicle gets none.
C12_RuleOrder ==
  [][isScan =>
       \A i \in 1..Len(scanned) :
         LET v == scanned[i]
             added == addedFor(v.id)
         IN IF wasDetected(v.id)
            THEN added = {} /\ v.detected
            ELSE IF isStalled(v)
            THEN /\ Cardinality(added) = 1
                 /\ \A k \in added : history'[k].insight.type = "warning"
                 /\ v.detected
            ELSE IF isOverheated(v)
            THEN /\ Cardinality(added) = 1
                 /\ \A k \in added : history'[k].insight.type = "critical"
                 /\ v.detected
            ELSE added = {} /\ ~v.detected]_vars

\* an overheated vehicle whose only alert is the warning of the stall rule
C12_Witness ==
  \E k \in 1..Len(history) :
    /\ history[k].insight.type = "warning"
    /\ history[k].vehicle \in idsOf(vehicles)
    /\ isOverheated(vehicleById(vehicles, history[k].vehicle))


\* the camera zone of the quarter of the tunnel that holds position p
zoneIds == <<"CAM-01", "CAM-02", "CAM-03", "CAM-04">>
bandOf(p) == zoneIds[(floor64(p) \div 25) + 1]

\* C13: every alert carries the zone of the band that holds the vehicle's
\* position at detection time (CAM-01 for [0,25), CAM-02 for [25,50), CAM-03
\* for [50,75), CAM-04 for [75,100)), and the lookup maps every position of a
\* live vehicle to the one zone of its band.
C13_ZoneOfBand ==
  /\ [](\A i \in 1..Len(vehicles) :
          getCameraZoneForPosition(vehicles[i].position) = bandOf(vehicles[i].position))
  /\ [][isScan =>
          \A a \in addedEntries :
            a.insight.zone = bandOf(vehicleById(scanned, a.vehicle).position)]_vars

\* an alert raised just below the middle of the tunnel: the message rounds
\* the position to 50 and the zone is the one of the second band
C13_Witness ==
  \E k \in 1..Len(aiInsights) :
    /\ aiInsights[k].zone = "CAM-02"
    /\ aiInsights[k].type = "warning"
    /\ aiInsights[k].message[4] = 50


\* the callback opened the spawn gate: it wrote lastSpawnTimeRef (135)
spawned == lastSpawnTimeRef' # lastSpawnTimeRef

\* what holds of the spawn gate: a step adds at most one vehicle, a callback
\* opens the gate exactly when the time since the last spawn exceeds the
\* threshold of that frame, and the threshold lies in [2000, 4000]
SpawnGateBasics ==
  /\ [][Len(vehicles') <= Len(vehicles) + 1]_vars
  /\ [][isFrame =>
          /\ spawnThreshold' >= 2000 /\ spawnThreshold' <= 4000
          /\ spawned <=> (now' - lastSpawnTimeRef > spawnThreshold')
          /\ spawned => now' - lastSpawnTimeRef > 2000]_vars

\* C14: a tick spawns at most one vehicle and only when the time since the
\* last spawn exceeds the threshold, a value in [2000, 4000]; the threshold
\* is redrawn only by a spawn: a frame that follows a frame without a spawn
\* uses the threshold of that frame.
C14_ThresholdKeptUntilSpawn ==
  /\ [][Len(vehicles') <= Len(vehicles) + 1]_vars
  /\ [][isFrame =>
          /\ spawnThreshold' >= 2000 /\ spawnThreshold' <= 4000
          /\ spawned => now' - lastSpawnTimeRef > spawnThreshold'
          /\ (spawnThreshold # 0 /\ lastSpawnTimeRef # now)
               => spawnThreshold' = spawnThreshold]_vars

\* ---------------------------------------------------------------- C15
\* the part of C15 that holds: in a tick a surviving vehicle keeps its speed
\* or has it multiplied by 0.3, so that the speed never increases
SpeedKeptOrTimesSlowFactor ==
  [][isTick =>
       \A i \in 1..Len(vehicles') :
         vehicles'[i].id \in idsOf(vehicles) =>
           LET old == vehicleById(vehicles, vehicles'[i].id).speed
               new == vehicles'[i].speed
           IN /\ leqBinary64(new, old)
              /\ new = old \/ new = timesBinary64(old, slowFactor64)]_vars

\* C15: for every live vehicle and every tick the speed after the tick is
\* > 0 and <= the speed before the tick (unchanged or multiplied by 0.3).
C15_SpeedPositiveNonIncreasing ==
  [][isTick =>
       \A i \in 1..Len(vehicles') :
         vehicles'[i].id \in idsOf(vehicles) =>
           /\ ~isZero64(vehicles'[i].speed)
           /\ leqBinary64(vehicles'[i].speed,
                          vehicleById(vehicles, vehicles'[i].id).speed)]_vars

\* ---------------------------------------------------------------- C16
\* the speeds spawnVehicle gives a vehicle of the type under the draws of Spec
spawnSpeeds(type) ==
  {spawnVehicle(d, 0).speed : d \in {x \in SpawnDraws : spawnVehicle(x, 0).type = type}}

\* the spawn speeds of each type multiplied up to MaxSlowdowns times by 0.3
slowedSpeeds ==
  UNION { { [type |-> t, times |-> k, speed |-> slowedBy(s, k)] :
              k \in 0..MaxSlowdowns, s \in spawnSpeeds(t) } :
          t \in {"car", "truck"} }

\* v.speed is a spawn speed of its type multiplied k times by 0.3
slowedTimes(v, k) == [type |-> v.type, times |-> k, speed |-> v.speed] \in slowedSpeeds

\* C16 as stated: the slowdown hits a vehicle at most once, so the speed of
\* a live vehicle is always its spawn speed or 0.3 times its spawn speed.
C16_SlowedAtMostOnce ==
  \A i \in 1..Len(vehicles) : slowedTimes(vehicles[i], 0) \/ slowedTimes(vehicles[i], 1)

\* C16 amended: a vehicle may be slowed in several ticks; its speed is always
\* its spawn speed multiplied by 0.3 a number of times, and a tick leaves the
\* speed of a surviving vehicle unchanged or multiplies it by 0.3 once more.
C16_SlowedRepeatedly ==
  /\ [](\A i \in 1..Len(vehicles) :
          \E k \in 0..MaxSlowdowns : slowedTimes(vehicles[i], k))
  /\ [][isTick =>
         \A i \in 1..Len(vehicles') :
           vehicles'[i].id \in idsOf(vehicles) =>
             LET old == vehicleById(vehicles, vehicles'[i].id)
             IN \A k \in 0..MaxSlowdowns :
                  slowedTimes(old, k) =>
                    \/ slowedTimes(vehicles'[i], k)
                    \/ k < MaxSlowdowns /\ slowedTimes(vehicles'[i], k + 1)]_vars

\* a live vehicle has been slowed twice
C16_Witness ==
  \E i \in 1..Len(vehicles) : slowedTimes(vehicles[i], 2)


\* ---------------------------------------------------------------- C17
\* every draw of the type and every draw of the speed, the other draws at 0
AllSpeedDraws ==
  { [rType |-> t, rLane |-> 0, rSpeed |-> r, rColor |-> 0, rTemp |-> 0] :
      t \in {0, 200, 400, 600, 800}, r \in 0..Largest53 }

\* no speed spawnVehicle can give is below the stall threshold
SpawnSpeedsNotStalled == \A d \in AllSpeedDraws : ~isStalled(spawnVehicle(d, 0))

\* C17: a warning (stall) alert is never created for a vehicle whose speed
\* equals its spawn speed, every spawn speed being >= 0.2: the vehicle of
\* each warning created by a tick has been slowed and is below 0.2.
C17_StallOnlyAfterSlowdown ==
  /\ [](SpawnSpeedsNotStalled)
  /\ [][isScan =>
         \A a \in addedEntries :
           a.insight.type = "warning" =>
             LET v == vehicleById(scanned, a.vehicle)
             IN /\ isStalled(v)
                /\ ~slowedTimes(v, 0)
                /\ \E k \in 1..MaxSlowdowns : slowedTimes(v, k)]_vars

\* a warning has been created while a vehicle that was scanned at its spawn
\* speed is live and not flagged
C17_Witness ==
  /\ \E k \in 1..Len(history) : history[k].insight.type = "warning"
  /\ \E i \in 1..Len(vehicles) :
       /\ slowedTimes(vehicles[i], 0)
       /\ ~isZero64(vehicles[i].position)
       /\ ~vehicles[i].detected


\* ---------------------------------------------------------------- C18
\* draws of spawnVehicle: one of the five sweeps the whole range of
\* Math.random(), the thousandths and the two largest numbers it returns,
\* while the others are all at the same end of it
EndDraws == {0, Largest53}
SweepDraws ==
  LET draw(t, l, s, c, p) ==
        [rType |-> t, rLane |-> l, rSpeed |-> s, rColor |-> c, rTemp |-> p]
      all == 0..Largest53
  IN UNION {
       {draw(r, a, a, a, a) : r \in all, a \in EndDraws},
       {draw(a, r, a, a, a) : r \in all, a \in EndDraws},
       {draw(a, a, r, a, a) : r \in all, a \in EndDraws},
       {draw(a, a, a, r, a) : r \in all, a \in EndDraws},
       {draw(a, a, a, a, r) : r \in all, a \in EndDraws} }

\* each of these draws with the vehicle spawnVehicle makes of it
sweptSpawns == { [d |-> d, v |-> spawnVehicle(d, 0)] : d \in SweepDraws }

\* the speeds spawnVehicle gives a vehicle of each type, over every draw of
\* the type and of the speed
sweptSpeeds ==
  { [type |-> v.type, speed |-> v.speed] :
      v \in {spawnVehicle(d, 0) : d \in AllSpeedDraws} }

\* the upper end of the temperature range of C18
tempEnd64 == decimal64(35, 1)

\* what C18 says of the type and the lane of a vehicle
typedAndLaned(v) ==
  /\ v.type \in {"car", "truck"}
  /\ v.lane \in {0, 1, 2}

\* what C18 says of a vehicle whatever its position and flag
wellFormedVehicle(v) ==
  /\ typedAndLaned(v)
  /\ leqBinary64(tempBase64, v.temperature)
  /\ lessBinary64(v.temperature, tempEnd64)

SpawnedWellFormed ==
  \A s \in sweptSpawns :
    wellFormedVehicle(s.v) /\ isZero64(s.v.position) /\ s.v.detected = FALSE

\* C18: spawnVehicle gives type car or truck, lane 0, 1 or 2, position 0,
\* detected false and a temperature in [20, 35); every live vehicle has such
\* a type, lane and temperature, and a vehicle spawned by a tick has moved
\* from position 0 by its spawn speed when the tick ends.
C18_SpawnedVehicle ==
  /\ [](SpawnedWellFormed)
  /\ [](\A i \in 1..Len(vehicles) : wellFormedVehicle(vehicles[i]))
  /\ [][isTick =>
         \A i \in 1..Len(vehicles') :
           vehicles'[i].id \notin idsOf(vehicles) =>
             /\ vehicles'[i].id = vehicleIdCounterRef' - 1
             /\ [type |-> vehicles'[i].type, speed |-> vehicles'[i].position]
                  \in sweptSpeeds
             /\ \/ vehicles'[i].speed = vehicles'[i].position
                \/ vehicles'[i].speed = timesBinary64(vehicles'[i].position, slowFactor64)
             /\ ~vehicles'[i].detected \/ isStalled(vehicles'[i])
                                       \/ isOverheated(vehicles'[i])]_vars

\* a live vehicle is at 35 degrees exactly, in a snapshot that comes after
\* the one of the tick that spawned it
C18_Witness ==
  \E i \in 1..Len(vehicles) :
    /\ vehicles[i].temperature = tempEnd64
    /\ vehicles[i].position # vehicles[i].speed
    /\ ~isZero64(vehicles[i].position)

\* the temperature spawnVehicle gives is 35 under the largest draws only
tempEndDraws == { s.d.rTemp : s \in {x \in sweptSpawns : x.v.temperature = tempEnd64} }

\* what is left of C18 once the temperature may be 35, of spawnVehicle:
\* every draw gives a car or a truck in lane 0, 1 or 2 at position 0, not
\* flagged, between 20 and 35 degrees, and 35 degrees under the two largest
\* draws only
SpawnedUpToTempEnd ==
  /\ \A s \in sweptSpawns :
       /\ typedAndLaned(s.v) /\ isZero64(s.v.position) /\ s.v.detected = FALSE
       /\ leqBinary64(tempBase64, s.v.temperature)
       /\ leqBinary64(s.v.temperature, tempEnd64)
  /\ tempEndDraws = {Largest52, Largest53}

\* and of the live vehicles: each is a car or a truck in lane 0, 1 or 2,
\* between 20 and 35 degrees
LiveUpToTempEnd ==
  /\ SpawnedUpToTempEnd
  /\ \A i \in 1..Len(vehicles) :
       /\ typedAndLaned(vehicles[i])
       /\ leqBinary64(tempBase64, vehicles[i].temperature)
       /\ leqBinary64(vehicles[i].temperature, tempEnd64)


\* ---------------------------------------------------------------- C19
\* C19: the live vehicles have pairwise distinct ids and are listed oldest
\* first, the ids increasing strictly along the list; a tick keeps the
\* vehicles it does not remove (same id, lane, type, colour and temperature),
\* adds at most the vehicle with the next id, at the end, and the other
\* steps leave the list alone or empty it.
C19_IdsOrderedAndStable ==
  /\ [](\A i \in 1..Len(vehicles), j \in 1..Len(vehicles) :
          /\ i < j => vehicles[i].id < vehicles[j].id
          /\ vehicles[i].id >= 0
          /\ vehicles[i].id < vehicleIdCounterRef)
  /\ [][isTick =>
         /\ idsOf(vehicles') \subseteq idsOf(vehicles) \cup {vehicleIdCounterRef' - 1}
         /\ \A i \in 1..Len(vehicles') :
              vehicles'[i].id \in idsOf(vehicles) =>
                LET old == vehicleById(vehicles, vehicles'[i].id)
                IN /\ vehicles'[i].lane = old.lane
                   /\ vehicles'[i].type = old.type
                   /\ vehicles'[i].color = old.color
                   /\ vehicles'[i].temperature = old.temperature
                   /\ vehicles'[i].position = plusBinary64(old.position, old.speed)]_vars
  /\ [][~isTick => (vehicles' = vehicles \/ vehicles' = <<>>)]_vars

\* three vehicles are live and a newer one has overtaken an older one
C19_Witness ==
  /\ Len(vehicles) >= 3
  /\ \E i \in 1..Len(vehicles), j \in 1..Len(vehicles) :
       i < j /\ lessBinary64(vehicles[i].position, vehicles[j].position)


\* ---------------------------------------------------------------- C20
\* C20: in every snapshot, after each tick and after reset, the reported
\* vehicle count is the number of vehicles in the live list, also after a
\* tick that both spawns a vehicle and removes an exited one.
C20_CountMatchesList == vehicleCount = Len(vehicles)


\* ---------------------------------------------------------------- C21
\* C21: after every tick each live vehicle is flagged detected exactly when
\* its speed is below 0.2 or its temperature is above 30; a vehicle spawned
\* with a temperature above 30 is flagged in the first snapshot showing it.
C21_DetectedIffAnomalous ==
  \A i \in 1..Len(vehicles) :
    vehicles[i].detected <=>
      \/ lessBinary64(vehicles[i].speed, stallSpeed64)
      \/ lessBinary64(heatLimit64, vehicles[i].temperature)

\* a hot vehicle is flagged in the snapshot of the tick that spawned it,
\* next to a slowed vehicle that is flagged and a vehicle that is not
C21_Witness ==
  /\ \E i \in 1..Len(vehicles) :
       /\ lessBinary64(heatLimit64, vehicles[i].temperature)
       /\ vehicles[i].position = vehicles[i].speed
       /\ vehicles[i].id = vehicleIdCounterRef - 1
       /\ vehicles[i].detected
  /\ \E i \in 1..Len(vehicles) :
       /\ leqBinary64(vehicles[i].temperature, heatLimit64)
       /\ lessBinary64(vehicles[i].speed, stallSpeed64)
       /\ vehicles[i].detected
  /\ \E i \in 1..Len(vehicles) : ~vehicles[i].detected


\* ---------------------------------------------------------------- C22
\* C22: at most one animate callback is registered at any time and none
\* while the simulation is paused; the registered one is the request held
\* in animationFrameRef and belongs to a running render.  A start, whatever
\* came before it, leaves exactly one callback, and a frame consumes the only
\* callback, queues the updates of one tick and registers exactly one
\* callback.
C22_SingleLoop ==
  /\ [](/\ Cardinality(frames) <= 1
         /\ ~isRunning => frames = {}
         /\ \A f \in frames : f.id = animationFrameRef /\ f.isRunning)
  /\ [][startSimulation => Cardinality(frames') = 1]_vars
  /\ [][isFrame =>
          /\ Cardinality(frames) = 1 /\ Cardinality(frames') = 1
          /\ queuedFrames(pending'.updates) = queuedFrames(pending.updates) + 1]_vars

\* the loop runs again after a reset, one callback registered, the first
\* tick since the reset done
C22_Witness ==
  /\ isRunning
  /\ Cardinality(frames) = 1
  /\ simulationTime = 1
  /\ now >= InitialClock + 3 * CoarseGap


\* ---------------------------------------------------------------- C23
\* in a tick a vehicle stays where it is in the tunnel
heldBy(old, new) == new.position = old.position /\ inTunnel(new)

\* C23: every live vehicle ends up at position >= 100 and is removed,
\* whatever slowdowns are applied to it: it keeps advancing, every tick takes
\* a vehicle that stays in the tunnel further than it was.
C23_KeepsAdvancing ==
  [][isTick =>
       \A i \in 1..Len(vehicles') :
         vehicles'[i].id \in idsOf(vehicles) =>
           lessBinary64(vehicleById(vehicles, vehicles'[i].id).position,
                        vehicles'[i].position)]_vars

\* what happens instead: a vehicle that a tick leaves where it is will be
\* left there by the next tick too, its speed never increasing, so it stays
\* inside the tunnel for good
StuckForGood ==
  [][isTick =>
       \A i \in 1..Len(vehicles') :
         (/\ vehicles'[i].id \in idsOf(vehicles)
          /\ heldBy(vehicleById(vehicles, vehicles'[i].id), vehicles'[i]))
           => heldBy(vehicles'[i], moveVehicle(vehicles'[i], RandScale - 1))]_vars

====
